---------------------------- MODULE Spec2Model ----------------------------
(***************************************************************************)
(* A model of the image transformation engine of src/transforms.py.        *)
(*                                                                         *)
(* Bitmaps.  A bitmap is a record [w, h, bg, dots]: a w x h grid whose     *)
(* pixels all carry the shade bg except the pixels in DOMAIN dots, which   *)
(* carry dots[<<x, y>>].  Pixels are grey, a shade v standing for the RGB  *)
(* triple (v, v, v); coordinates are 0-based, x the column and y the row,  *)
(* as in the source.  The representation lets a 600 x 400 bitmap be held   *)
(* in one state, so that the size caps of the source (800, 600, 200) keep  *)
(* their values.                                                           *)
(*                                                                         *)
(* One transform runs at a time: pc is "idle" before a call, the name of   *)
(* a loop while the call runs, and "done" when it has returned (ret) or    *)
(* raised (ret.status names the exception).                                *)
(***************************************************************************)
EXTENDS Integers, Sequences, FiniteSets, TLC

VARIABLES pc, fn, args, ret, src, canvas, stack, leaves, prev, rng

vars == <<pc, fn, args, ret, src, canvas, stack, leaves, prev, rng>>

qvars == <<src, canvas, stack, leaves>>

\* The record of the call before this one, and the random generator.
hvars == <<prev, rng>>

-----------------------------------------------------------------------------
(* Bounds of the model *)

MaxSide == 5        \* small bitmaps have sides 1..MaxSide, any dot placement
MaxDepth == 2       \* max_depth is drawn from -1..MaxDepth
MaxLimit == 4       \* _constrain is called directly with max_dim in 1..MaxLimit

(* Program constants *)

MAX_DIM == 800
QUAD_MAX_DIM == 600
MIN_CELL == 4

Shades == {0, 255}

Thresholds == {-1, 0, 15, 200}

NoDots == <<>>

None == [status |-> "none"]

\* No random generator exists before the first call that creates one.
NoRng == -1

-----------------------------------------------------------------------------
(* Arithmetic of the source language *)

Max(a, b) == IF a >= b THEN a ELSE b

Min(a, b) == IF a <= b THEN a ELSE b

\* Python's a // b: the floor of a / b, for either sign of b (b # 0).
FloorDiv(a, b) ==
  IF b > 0 THEN a \div b
  ELSE IF a >= 0 THEN -(((a + (-b) - 1)) \div (-b))
  ELSE (-a) \div (-b)

\* int(a * (m / l)) for a, m >= 0 and l > 0: truncation of the product.
ScaleInt(a, m, l) == (a * m) \div l

RECURSIVE SumOver(_, _)
SumOver(f, S) ==
  IF S = {} THEN 0
  ELSE LET e == CHOOSE e \in S : TRUE IN f[e] + SumOver(f, S \ {e})

-----------------------------------------------------------------------------
(* Bitmaps *)

Bitmap(w, h, bg, dots) == [w |-> w, h |-> h, bg |-> bg, dots |-> dots]

At(img, x, y) ==
  IF <<x, y>> \in DOMAIN img.dots THEN img.dots[<<x, y>>] ELSE img.bg

SmallSizes == (1..MaxSide) \X (1..MaxSide)

\* Sizes on either side of the caps of the source, and the extreme aspect
\* ratios whose short side scales to less than one pixel.
LargeSizes ==
  { <<9, 8>>, <<600, 400>>, <<601, 3>>, <<1200, 800>>, <<1000, 1>>, <<1, 1000>> }

FlatBitmaps(sizes) ==
  { Bitmap(s[1], s[2], b, NoDots) : s \in sizes, b \in Shades }

\* A flat bitmap with one pixel of another shade.
DottedBitmaps(sizes) ==
  UNION { { Bitmap(s[1], s[2], b, [p \in {<<x, y>>} |-> v]) :
              x \in 0..(s[1] - 1), y \in 0..(s[2] - 1), v \in Shades \ {b} } :
          s \in sizes, b \in Shades }

-----------------------------------------------------------------------------
(* _constrain, transforms.py 15-23 *)

\* Image.resize with a LANCZOS filter.  Pillow refuses a target size with a
\* side below 1 ("height and width must be > 0").  Resampling a flat bitmap
\* yields the flat bitmap of the new size; the bitmaps with dots are smaller
\* than every cap, so the filter's pixel arithmetic is never needed.
Resize(img, nw, nh) ==
  IF nw < 1 \/ nh < 1 THEN [status |-> "ValueError"]
  ELSE [status |-> "ok", img |-> Bitmap(nw, nh, img.bg, NoDots)]

_constrain(image, max_dim) ==
  LET longest == Max(image.w, image.h) IN
  IF longest <= max_dim THEN [status |-> "ok", img |-> image]
  ELSE Resize(image, ScaleInt(image.w, max_dim, longest),
                     ScaleInt(image.h, max_dim, longest))

-----------------------------------------------------------------------------
Init ==
  /\ pc = "idle"
  /\ fn = "none"
  /\ args = None
  /\ ret = None
  /\ src = None
  /\ canvas = None
  /\ stack = <<>>
  /\ leaves = <<>>
  /\ prev = None
  /\ rng = NoRng

\* The caller takes the result; the next call starts from a clean slate.
Reset ==
  /\ pc = "done"
  /\ pc' = "idle"
  /\ fn' = "none"
  /\ args' = None
  /\ ret' = None
  /\ src' = None
  /\ canvas' = None
  /\ stack' = <<>>
  /\ leaves' = <<>>
  /\ prev' = None
  /\ rng' = NoRng

-----------------------------------------------------------------------------
(* Direct calls of _constrain *)

ConstrainInputs == FlatBitmaps(SmallSizes \cup LargeSizes)

ConstrainLimits == (1..MaxLimit) \cup {200, QUAD_MAX_DIM, MAX_DIM}

ConstrainCall ==
  /\ pc = "idle"
  /\ \E image \in ConstrainInputs, max_dim \in ConstrainLimits :
       /\ fn' = "_constrain"
       /\ args' = [image |-> image, max_dim |-> max_dim]
       /\ ret' = _constrain(image, max_dim)
  /\ pc' = "done"
  /\ UNCHANGED <<qvars, hvars>>

NextConstrain == ConstrainCall \/ Reset

SpecConstrain == Init /\ [][NextConstrain]_vars

\* C5: for every bitmap with width >= 1 and height >= 1 and every limit
\* max_dim >= 1, _constrain raises no error and returns a bitmap with
\* width >= 1 and height >= 1 whose longest side is <= max_dim.
C5_ConstrainTotal ==
  (pc = "done" /\ fn = "_constrain" /\ args.image.w >= 1 /\ args.image.h >= 1
     /\ args.max_dim >= 1)
  => /\ ret.status = "ok"
     /\ ret.img.w >= 1
     /\ ret.img.h >= 1
     /\ Max(ret.img.w, ret.img.h) <= args.max_dim

-----------------------------------------------------------------------------
(* quadtree, transforms.py 117-153 *)

NoOutline == -1

BORDER_SHADE == 30

Frame(x, y, bw, bh, depth) ==
  [x |-> x, y |-> y, bw |-> bw, bh |-> bh, depth |-> depth]

\* The dots of img inside the region src[y : y + bh, x : x + bw].
DotsIn(img, f) ==
  { p \in DOMAIN img.dots :
      /\ f.x <= p[1] /\ p[1] < f.x + f.bw
      /\ f.y <= p[2] /\ p[2] < f.y + f.bh }

RegionSum(img, f) ==
  LET D == DotsIn(img, f) IN
  img.bg * (f.bw * f.bh - Cardinality(D)) + SumOver(img.dots, D)

RegionSumSq(img, f) ==
  LET D == DotsIn(img, f)
      sq == [p \in D |-> img.dots[p] * img.dots[p]] IN
  img.bg * img.bg * (f.bw * f.bh - Cardinality(D)) + SumOver(sq, D)

\* std < threshold, with std = np.mean(np.std(flat, axis=0)): the three
\* channels of a grey region have the same deviation, sqrt(n*S2 - S1^2) / n.
\* A region without dots has deviation 0 whatever its size.
StdBelow(img, f, threshold) ==
  IF DotsIn(img, f) = {} THEN 0 < threshold
  ELSE LET n == f.bw * f.bh
           s1 == RegionSum(img, f)
           s2 == RegionSumSq(img, f) IN
       /\ threshold > 0
       /\ n * s2 - s1 * s1 < threshold * threshold * n * n

\* tuple(int(v) for v in flat.mean(axis=0)): the mean, truncated.
MeanShade(img, f) ==
  IF DotsIn(img, f) = {} THEN img.bg
  ELSE RegionSum(img, f) \div (f.bw * f.bh)

IsLeafOffByOne(img, f, max_depth, threshold) ==
  \/ StdBelow(img, f, threshold)
  \/ f.depth > max_depth
  \/ Min(f.bw, f.bh) < MIN_CELL

\* The test of the cell size left out.
IsLeafWithoutMinCell(img, f, max_depth, threshold) ==
  \/ StdBelow(img, f, threshold)
  \/ f.depth >= max_depth

IsLeaf(img, f, max_depth, threshold) ==
  \/ StdBelow(img, f, threshold)
  \/ f.depth >= max_depth
  \/ Min(f.bw, f.bh) < MIN_CELL

ChildrenEqualHalves(f) ==
  LET hw == f.bw \div 2
      hh == f.bh \div 2 IN
  << Frame(f.x, f.y, hw, hh, f.depth + 1),
     Frame(f.x + hw, f.y, hw, hh, f.depth + 1),
     Frame(f.x, f.y + hh, hw, hh, f.depth + 1),
     Frame(f.x + hw, f.y + hh, hw, hh, f.depth + 1) >>

\* The four recursive calls, in the order they are made.
Children(f) ==
  LET hw == f.bw \div 2
      hh == f.bh \div 2 IN
  << Frame(f.x, f.y, hw, hh, f.depth + 1),
     Frame(f.x + hw, f.y, f.bw - hw, hh, f.depth + 1),
     Frame(f.x, f.y + hh, hw, f.bh - hh, f.depth + 1),
     Frame(f.x + hw, f.y + hh, f.bw - hw, f.bh - hh, f.depth + 1) >>

\* The far corner taken one pixel too far: [x, y, x + bw, y + bh].
RectangleOffByOne(f, fill, outline) ==
  [x0 |-> f.x, y0 |-> f.y, x1 |-> f.x + f.bw, y1 |-> f.y + f.bh,
   fill |-> fill, outline |-> outline]

\* draw.rectangle([x, y, x + bw - 1, y + bh - 1], fill=avg, outline=outline)
Rectangle(f, fill, outline) ==
  [x0 |-> f.x, y0 |-> f.y, x1 |-> f.x + f.bw - 1, y1 |-> f.y + f.bh - 1,
   fill |-> fill, outline |-> outline]

NewCanvasTransposed(w, h) == [w |-> h, h |-> w, ops |-> <<>>]

\* Image.new("RGB", (w, h)): a black canvas, here with the list of the
\* rectangles drawn on it so far.
NewCanvas(w, h) == [w |-> w, h |-> h, ops |-> <<>>]

MaxDeepSide == 16   \* sides up to which a depth limit out of reach is tried

DeepestDepth == 1000

QuadInputs ==
  FlatBitmaps(SmallSizes \cup LargeSizes \cup {<<MaxDeepSide, MaxDeepSide>>})
    \cup DottedBitmaps(SmallSizes \cup {<<9, 8>>})

\* The depth limits tried on an image: the small ones, and one that no
\* recursion reaches.
Depths(image) ==
  ((-1)..MaxDepth)
    \cup (IF Max(image.w, image.h) <= MaxDeepSide THEN {DeepestDepth} ELSE {})

QuadtreeCall ==
  /\ pc = "idle"
  /\ \E image \in QuadInputs, threshold \in Thresholds,
        show_borders \in BOOLEAN :
     \E max_depth \in Depths(image) :
       LET c == _constrain(image, QUAD_MAX_DIM) IN
       /\ fn' = "quadtree"
       /\ args' = [image |-> image, max_depth |-> max_depth,
                   threshold |-> threshold, show_borders |-> show_borders]
       /\ IF c.status = "ok"
          THEN /\ src' = c.img
               /\ canvas' = NewCanvas(c.img.w, c.img.h)
               /\ stack' = << Frame(0, 0, c.img.w, c.img.h, 0) >>
               /\ pc' = "split"
               /\ ret' = None
          ELSE /\ ret' = [status |-> c.status]
               /\ pc' = "done"
               /\ UNCHANGED <<src, canvas, stack>>
  /\ UNCHANGED <<leaves, hvars>>

\* One activation of _split: the frame on top of the call stack.
SplitStep ==
  /\ pc = "split"
  /\ stack # <<>>
  /\ LET f == Head(stack) IN
     IF f.bw < 1 \/ f.bh < 1
     THEN /\ stack' = Tail(stack)
          /\ UNCHANGED <<canvas, leaves>>
     ELSE IF IsLeaf(src, f, args.max_depth, args.threshold)
     THEN /\ canvas' = [canvas EXCEPT !.ops =
               Append(@, Rectangle(f, MeanShade(src, f),
                  IF args.show_borders THEN BORDER_SHADE ELSE NoOutline))]
          /\ leaves' = Append(leaves, f)
          /\ stack' = Tail(stack)
     ELSE /\ stack' = Children(f) \o Tail(stack)
          /\ UNCHANGED <<canvas, leaves>>
  /\ UNCHANGED <<pc, fn, args, ret, src, hvars>>

QuadtreeReturn ==
  /\ pc = "split"
  /\ stack = <<>>
  /\ ret' = [status |-> "ok", w |-> canvas.w, h |-> canvas.h]
  /\ pc' = "done"
  /\ UNCHANGED <<fn, args, src, canvas, stack, leaves, hvars>>

MaxArea == 80       \* a second pass is run on canvases of at most MaxArea pixels

CANVAS_SHADE == 0   \* Image.new("RGB", (w, h)) is black

\* The outline drawn although outline=None was passed.
OpShadeEdgeAlways(op, x, y) ==
  IF x = op.x0 \/ x = op.x1 \/ y = op.y0 \/ y = op.y1
  THEN BORDER_SHADE ELSE op.fill

\* ImageDraw.rectangle: the pixels x0..x1, y0..y1 take the fill, and with
\* an outline the one-pixel frame of the rectangle takes the outline
\* colour.  No pixel outside the rectangle is written.
OpWrites(op, x, y) ==
  /\ op.x0 <= x /\ x <= op.x1
  /\ op.y0 <= y /\ y <= op.y1

OpShade(op, x, y) ==
  IF op.outline # NoOutline
     /\ (x = op.x0 \/ x = op.x1 \/ y = op.y0 \/ y = op.y1)
  THEN op.outline ELSE op.fill

\* The shade of pixel (x, y) after the rectangles of ops have been drawn
\* in this order on a black canvas: the last one that wrote it wins.
PixelOf(ops, x, y) ==
  LET I == { i \in DOMAIN ops : OpWrites(ops[i], x, y) } IN
  IF I = {} THEN CANVAS_SHADE
  ELSE OpShade(ops[CHOOSE i \in I : \A j \in I : j <= i], x, y)

\* The bitmap quadtree returns: the canvas with its rectangles drawn.
Render(cv) ==
  LET bg == IF cv.ops = <<>> THEN CANVAS_SHADE ELSE cv.ops[1].fill
      P == (0..(cv.w - 1)) \X (0..(cv.h - 1)) IN
  Bitmap(cv.w, cv.h, bg,
         [p \in { q \in P : PixelOf(cv.ops, q[1], q[2]) # bg } |->
            PixelOf(cv.ops, p[1], p[2])])

\* quadtree(quadtree(image, ...), ...): the caller feeds the returned
\* bitmap to quadtree again, with the same parameters.
QuadtreeAgain ==
  /\ pc = "done"
  /\ fn = "quadtree"
  /\ ret.status = "ok"
  /\ prev = None
  /\ canvas.w * canvas.h <= MaxArea
  /\ LET image == Render(canvas)
         c == _constrain(image, QUAD_MAX_DIM) IN
     /\ args' = [args EXCEPT !.image = image]
     /\ src' = c.img
     /\ canvas' = NewCanvas(c.img.w, c.img.h)
     /\ stack' = << Frame(0, 0, c.img.w, c.img.h, 0) >>
  /\ leaves' = <<>>
  /\ prev' = [args |-> args, ret |-> ret, canvas |-> canvas, leaves |-> leaves]
  /\ pc' = "split"
  /\ ret' = None
  /\ UNCHANGED <<fn, rng>>

NextQuadtree ==
  QuadtreeCall \/ SplitStep \/ QuadtreeReturn \/ QuadtreeAgain \/ Reset

SpecQuadtree == Init /\ [][NextQuadtree]_vars

QuadtreeReturned == pc = "done" /\ fn = "quadtree" /\ ret.status = "ok"

LeafInside(f) ==
  /\ 0 <= f.x /\ f.x + f.bw <= src.w
  /\ 0 <= f.y /\ f.y + f.bh <= src.h
  /\ f.bw >= 1 /\ f.bh >= 1

LeafCovers(f, px, py) ==
  /\ f.x <= px /\ px < f.x + f.bw
  /\ f.y <= py /\ py < f.y + f.bh

LeavesOverlap(f, g) ==
  /\ f.x < g.x + g.bw /\ g.x < f.x + f.bw
  /\ f.y < g.y + g.bh /\ g.y < f.y + f.bh

LeafArea == [i \in DOMAIN leaves |-> leaves[i].bw * leaves[i].bh]

\* C1: the leaf rectangles of _split(0, 0, w, h, 0) exactly tile the canvas.
\* Every leaf lies inside the canvas, no two leaves share a pixel and the
\* leaf areas add up to w * h; on the small canvases each pixel is also
\* counted directly: it lies in exactly one leaf.
C1_LeavesTileCanvas ==
  (QuadtreeReturned /\ src.w >= 1 /\ src.h >= 1 /\ args.max_depth >= 0)
  => /\ \A i \in DOMAIN leaves : LeafInside(leaves[i])
     /\ \A i, j \in DOMAIN leaves :
          i < j => ~LeavesOverlap(leaves[i], leaves[j])
     /\ SumOver(LeafArea, DOMAIN leaves) = src.w * src.h
     /\ (src.w <= 10 /\ src.h <= 10) =>
          \A px \in 0..(src.w - 1), py \in 0..(src.h - 1) :
            Cardinality({ i \in DOMAIN leaves : LeafCovers(leaves[i], px, py) }) = 1

\* A run that split twice on a canvas with odd halves.
C1_Witness ==
  /\ QuadtreeReturned
  /\ Len(leaves) >= 7
  /\ \E i \in DOMAIN leaves : leaves[i].bw # leaves[1].bw

\* C2: for max_depth >= 0 every painted leaf has recursion depth <=
\* max_depth; with max_depth = 0 the whole image is one leaf at depth 0.
C2_LeafDepthBounded ==
  (fn = "quadtree" /\ args.max_depth >= 0)
  => /\ \A i \in DOMAIN leaves : leaves[i].depth <= args.max_depth
     /\ (QuadtreeReturned /\ args.max_depth = 0 /\ src.w >= 1 /\ src.h >= 1)
          => leaves = << Frame(0, 0, src.w, src.h, 0) >>

\* A leaf painted at the depth limit although its region is not uniform.
C2_Witness ==
  /\ QuadtreeReturned
  /\ args.max_depth >= 1
  /\ \E i \in DOMAIN leaves :
       /\ leaves[i].depth = args.max_depth
       /\ Min(leaves[i].bw, leaves[i].bh) >= MIN_CELL
       /\ ~StdBelow(src, leaves[i], args.threshold)

\* C6 as stated: the bitmap returned by quadtree has the width and height
\* of the bitmap passed to quadtree.
C6_SameSizeAsArgument ==
  QuadtreeReturned => (ret.w = args.image.w /\ ret.h = args.image.h)

\* C6, amended: the bitmap returned by quadtree has the width and height of
\* the working bitmap, the argument scaled so that its longest side is at
\* most 600; it has the argument's size when that side is <= 600.
C6_SameSizeAsWorkingBitmap ==
  QuadtreeReturned
  => LET longest == Max(args.image.w, args.image.h) IN
     IF longest <= QUAD_MAX_DIM
     THEN ret.w = args.image.w /\ ret.h = args.image.h
     ELSE /\ ret.w = (args.image.w * QUAD_MAX_DIM) \div longest
          /\ ret.h = (args.image.h * QUAD_MAX_DIM) \div longest

C6_Witness ==
  /\ QuadtreeReturned
  /\ args.image.w = 1200
  /\ ret.w = 600 /\ ret.h = 400

\* The second pass has returned: prev holds the first call and its canvas.
QuadtreeTwice == QuadtreeReturned /\ prev # None

FlatInput == prev.args.image.dots = NoDots

SameBitmap(cv, cw) ==
  /\ cv.w = cw.w /\ cv.h = cw.h
  /\ \A x \in 0..(cv.w - 1), y \in 0..(cv.h - 1) :
       PixelOf(cv.ops, x, y) = PixelOf(cw.ops, x, y)

SingleLeaf(ls, cv) == ls = << Frame(0, 0, cv.w, cv.h, 0) >>

Swapped(ops, i, j) ==
  [k \in DOMAIN ops |-> IF k = i THEN ops[j] ELSE IF k = j THEN ops[i] ELSE ops[k]]

Reversed(ops) == [k \in DOMAIN ops |-> ops[Len(ops) + 1 - k]]

SamePixels(cv, ops, other) ==
  \A x \in 0..(cv.w - 1), y \in 0..(cv.h - 1) :
    PixelOf(ops, x, y) = PixelOf(other, x, y)

\* C14: the bitmap quadtree returns does not depend on the order in which
\* the leaves were painted, because the fill and the outline of a leaf
\* write only the pixels [x, x + bw - 1] x [y, y + bh - 1] of that leaf.
\* The rectangle drawn for a leaf is the rectangle of the leaf and no two
\* drawn rectangles meet; on the canvases whose pixels are enumerated, no
\* pixel in or next to the canvas is written from outside its leaf, every
\* pixel of the returned canvas has one writer, and painting the leaves
\* in reverse order or with two successive leaves exchanged gives the
\* same bitmap.
C14_PaintingOrderIrrelevant ==
  (pc \in {"split", "done"} /\ fn = "quadtree" /\ canvas # None)
  => /\ Len(canvas.ops) = Len(leaves)
     /\ \A i \in DOMAIN leaves :
          /\ canvas.ops[i].x0 = leaves[i].x
          /\ canvas.ops[i].x1 = leaves[i].x + leaves[i].bw - 1
          /\ canvas.ops[i].y0 = leaves[i].y
          /\ canvas.ops[i].y1 = leaves[i].y + leaves[i].bh - 1
          /\ \A j \in DOMAIN leaves :
               i # j => \/ canvas.ops[i].x1 < canvas.ops[j].x0
                        \/ canvas.ops[j].x1 < canvas.ops[i].x0
                        \/ canvas.ops[i].y1 < canvas.ops[j].y0
                        \/ canvas.ops[j].y1 < canvas.ops[i].y0
     /\ (pc = "done" /\ canvas.w * canvas.h <= MaxArea)
        => /\ \A i \in DOMAIN leaves, x \in (-1)..canvas.w, y \in (-1)..canvas.h :
                OpWrites(canvas.ops[i], x, y) => LeafCovers(leaves[i], x, y)
           /\ \A x \in 0..(canvas.w - 1), y \in 0..(canvas.h - 1) :
                Cardinality({ i \in DOMAIN leaves :
                                OpWrites(canvas.ops[i], x, y) }) = 1
           /\ SamePixels(canvas, canvas.ops, Reversed(canvas.ops))
           /\ \A i \in 1..(Len(leaves) - 1) :
                SamePixels(canvas, canvas.ops, Swapped(canvas.ops, i, i + 1))

\* Sixteen outlined leaves of more than one fill were painted on a canvas
\* whose pixels are enumerated.
C14_Witness ==
  /\ QuadtreeReturned
  /\ args.show_borders
  /\ canvas.w * canvas.h <= MaxArea
  /\ Len(leaves) = 16
  /\ \E i, j \in DOMAIN canvas.ops : canvas.ops[i].fill # canvas.ops[j].fill

\* C15: every leaf is filled with the mean colour of its region, each
\* channel rounded to the nearest integer: the fill v of a leaf of n
\* pixels whose shades add up to S is an integer nearest to S / n, that
\* is |n * v - S| <= n / 2.
C15_FillIsNearestMean ==
  (pc \in {"split", "done"} /\ fn = "quadtree" /\ canvas # None)
  => \A i \in DOMAIN leaves :
       LET n == leaves[i].bw * leaves[i].bh
           S == RegionSum(src, leaves[i])
           v == canvas.ops[i].fill IN
       /\ 2 * S - n <= 2 * n * v
       /\ 2 * n * v <= 2 * S + n

\* An upper bound on the activations of _split still to come: a region of
\* n pixels is the root of a tree of at most 2n - 1 regions.
Pending == [i \in DOMAIN stack |-> 2 * stack[i].bw * stack[i].bh - 1]

PendingAfter == [i \in DOMAIN stack' |-> 2 * stack'[i].bw * stack'[i].bh - 1]

\* C18: the recursion of _split terminates for every image and every
\* max_depth, however large, also when the threshold is 0 or negative.  A
\* region is split only when both its sides are >= 4; each child is
\* strictly smaller than its parent in both dimensions and has both sides
\* >= 2; a region with a side < 4 is always a leaf.  Termination: every
\* activation of _split strictly lowers a bound on the activations still
\* to come, which is never negative and does not depend on max_depth or
\* on the threshold, and once no activation is left quadtree returns.
C18_SplitTerminates ==
  [][/\ SplitStep =>
          LET f == Head(stack)
              split == Len(stack') > Len(stack) IN
          /\ split => /\ f.bw >= MIN_CELL /\ f.bh >= MIN_CELL
                      /\ \A i \in 1..4 :
                           /\ 2 <= stack'[i].bw /\ stack'[i].bw < f.bw
                           /\ 2 <= stack'[i].bh /\ stack'[i].bh < f.bh
          /\ (f.bw >= 1 /\ f.bh >= 1 /\ Min(f.bw, f.bh) < MIN_CELL)
               => leaves' = Append(leaves, f)
          /\ SumOver(PendingAfter, DOMAIN stack') < SumOver(Pending, DOMAIN stack)
          /\ SumOver(PendingAfter, DOMAIN stack') >= 0
     /\ (pc = "split" /\ stack = <<>>) => ENABLED QuadtreeReturn]_vars

\* A call with a depth limit out of reach and a threshold that stops
\* nothing went down to regions of two pixels a side, three levels deep,
\* and returned.
C18_Witness ==
  /\ QuadtreeReturned
  /\ args.max_depth = DeepestDepth
  /\ args.threshold <= 0
  /\ Len(leaves) = 64
  /\ \A i \in DOMAIN leaves : leaves[i].depth = 3 /\ leaves[i].bw = 2

-----------------------------------------------------------------------------
(* pixelate, transforms.py 53-61, and posterize, transforms.py 160-172 *)

MaxBlock == 3       \* block_size is drawn from -1..MaxBlock
MaxLevels == 4      \* levels is drawn from -2..MaxLevels

MAX_COLORS == 256

AuxInputs ==
  FlatBitmaps(SmallSizes \cup LargeSizes) \cup DottedBitmaps(SmallSizes)

ColorCounts == {0, 1, 16, MAX_COLORS, 300}

\* Saturation multipliers, in hundredths.
Saturations == {100, 150}

\* An exception, with the last statement the call had reached.
Raised(status, stage) == [status |-> status, stage |-> stage]

\* Image.quantize(colors=n) accepts 1..256 colours.
QuantizeAccepts(n) == 1 <= n /\ n <= MAX_COLORS

\* The outcome of pixelate: the exception it raises, or the size of the
\* bitmap it returns (its pixels come from Pillow's BILINEAR and NEAREST
\* filters and palette search).
pixelate(image, block_size, num_colors) ==
  LET c == _constrain(image, MAX_DIM) IN
  IF c.status # "ok" THEN Raised(c.status, "_constrain")
  ELSE IF block_size = 0 THEN Raised("ZeroDivisionError", "small_w")
  ELSE LET small_w == Max(1, FloorDiv(c.img.w, block_size))
           small_h == Max(1, FloorDiv(c.img.h, block_size)) IN
       IF num_colors < MAX_COLORS /\ ~QuantizeAccepts(num_colors)
       THEN Raised("ValueError", "quantize")
       ELSE [status |-> "ok", stage |-> "return", w |-> c.img.w, h |-> c.img.h,
             small_w |-> small_w, small_h |-> small_h]

\* np.clip(np.floor(v / factor) * factor + factor / 2, 0, 255).astype(uint8)
\* with factor = 256.0 / levels, levels # 0: the value is
\* (floor(v * levels / 256) * 256 + 128) / levels.
PosterizedShade(v, levels) ==
  LET num == FloorDiv(v * levels, 256) * 256 + 128 IN
  IF (num < 0) = (levels < 0)
  THEN Min(255, (IF num < 0 THEN -num ELSE num)
                  \div (IF levels < 0 THEN -levels ELSE levels))
  ELSE 0

\* ImageEnhance.Color blends every pixel with its own luminance; a grey
\* pixel (v, v, v) has luminance v and keeps its value for every factor.
EnhanceColor(img, saturation) == img

posterize(image, levels, saturation) ==
  LET c == _constrain(image, MAX_DIM) IN
  IF c.status # "ok" THEN Raised(c.status, "_constrain")
  ELSE IF levels = 0 THEN Raised("ZeroDivisionError", "factor")
  ELSE LET arr == [c.img EXCEPT
                     !.bg = PosterizedShade(@, levels),
                     !.dots = [p \in DOMAIN @ |-> PosterizedShade(@[p], levels)]]
           result == IF saturation - 100 > 1 \/ 100 - saturation > 1
                     THEN EnhanceColor(arr, saturation) ELSE arr IN
       [status |-> "ok", stage |-> "return", w |-> result.w, h |-> result.h,
        img |-> result]

PixelateCall ==
  /\ pc = "idle"
  /\ \E image \in AuxInputs, block_size \in (-1)..MaxBlock,
        num_colors \in ColorCounts :
       /\ fn' = "pixelate"
       /\ args' = [image |-> image, block_size |-> block_size,
                   num_colors |-> num_colors]
       /\ ret' = pixelate(image, block_size, num_colors)
  /\ pc' = "done"
  /\ UNCHANGED <<qvars, hvars>>

PosterizeCall ==
  /\ pc = "idle"
  /\ \E image \in AuxInputs, levels \in (-2)..MaxLevels,
        saturation \in Saturations :
       /\ fn' = "posterize"
       /\ args' = [image |-> image, levels |-> levels,
                   saturation |-> saturation]
       /\ ret' = posterize(image, levels, saturation)
  /\ pc' = "done"
  /\ UNCHANGED <<qvars, hvars>>

NextAux == PosterizeCall \/ PixelateCall \/ Reset

SpecAux == Init /\ [][NextAux]_vars

\* A parameter outside the range the interface documents (section 6 and
\* 4.5 of the specification): block_size >= 1, color count 1..256,
\* levels >= 1.
OutOfRange ==
  \/ fn = "pixelate" /\ (args.block_size < 1 \/ ~QuantizeAccepts(args.num_colors))
  \/ fn = "posterize" /\ args.levels < 1

\* C7: a transform called with a parameter outside its documented range
\* fails with an invalid-parameter condition before any computation
\* begins, and returns no output.
C7_InvalidParameterRejected ==
  (pc = "done" /\ OutOfRange)
  => /\ ret.status = "ValueError"
     /\ ret.stage = "boundary"

-----------------------------------------------------------------------------
(* color_by_number, transforms.py 211-271 *)

MIN_REGION == 20
LABEL_SHADE == 130
WHITE == 255
BLACK == 0
MID_SHADE == 128

Pixels(img) == (0..(img.w - 1)) \X (0..(img.h - 1))

\* The order of np.where and of ndimage.label: by row, then by column.
RasterBefore(p, q) == p[2] < q[2] \/ (p[2] = q[2] /\ p[1] <= q[1])

UniqueShades(img) ==
  (IF Cardinality(DOMAIN img.dots) < img.w * img.h THEN {img.bg} ELSE {})
    \cup { img.dots[p] : p \in DOMAIN img.dots }

CountOf(img, v) ==
  Cardinality({ p \in DOMAIN img.dots : img.dots[p] = v })
    + (IF img.bg = v THEN img.w * img.h - Cardinality(DOMAIN img.dots) ELSE 0)

Rank(S, v) == Cardinality({ u \in S : u < v }) + 1

\* The quantization step left out: the working bitmap keeps all its
\* colours.
QuantizeSkipped(img, n) == img

\* Image.quantize(colors=n).convert("RGB"), without dithering: every pixel
\* takes the colour of the palette entry of its source colour, and the
\* palette has at most n entries.  A bitmap with at most n colours keeps
\* them; otherwise the sorted colours are cut into n runs and each run is
\* replaced by its pixel-weighted mean.
Quantize(img, n) ==
  LET U == UniqueShades(img)
      k == Cardinality(U)
      run(v) == ((Rank(U, v) - 1) * n) \div k
      weight == [v \in U |-> v * CountOf(img, v)]
      count == [v \in U |-> CountOf(img, v)]
      rep(v) == LET G == { u \in U : run(u) = run(v) } IN
                SumOver(weight, G) \div SumOver(count, G) IN
  IF k <= n THEN img
  ELSE [img EXCEPT !.bg = IF @ \in U THEN rep(@) ELSE @,
                   !.dots = [p \in DOMAIN @ |-> rep(@[p])]]

\* color_map: for every pixel the 1-based position of its colour in
\* np.unique(flat, axis=0), which sorts the colours.
ColorMap(q) ==
  LET U == UniqueShades(q) IN
  [p \in Pixels(q) |-> Rank(U, At(q, p[1], p[2]))]

\* The neighbours taken modulo the size, as np.roll would give them: the
\* last column is compared with the first and the last row with the first.
BoundaryWrapped(cm, w, h) ==
  { p \in DOMAIN cm :
      \/ cm[p] # cm[<<(p[1] + 1) % w, p[2]>>]
      \/ cm[p] # cm[<<p[1], (p[2] + 1) % h>>] }

\* h_diff | v_diff: the pixel differs from its right or its bottom neighbour.
Boundary(cm, w, h) ==
  { p \in DOMAIN cm :
      \/ p[1] < w - 1 /\ cm[p] # cm[<<p[1] + 1, p[2]>>]
      \/ p[2] < h - 1 /\ cm[p] # cm[<<p[1], p[2] + 1>>] }

Adjacent(p, q) ==
  \/ p[1] = q[1] /\ (p[2] = q[2] + 1 \/ q[2] = p[2] + 1)
  \/ p[2] = q[2] /\ (p[1] = q[1] + 1 \/ q[1] = p[1] + 1)

RECURSIVE Flood(_, _, _)
Flood(frontier, seen, mask) ==
  IF frontier = {} THEN seen
  ELSE LET nb == { q \in mask \ seen : \E p \in frontier : Adjacent(p, q) } IN
       Flood(nb, seen \cup nb, mask)

FirstRaster(S) == CHOOSE p \in S : \A q \in S : RasterBefore(p, q)

\* ndimage.label(mask): the 4-connected components of the mask, numbered
\* in raster order of their first pixel.
RECURSIVE Label(_)
Label(mask) ==
  IF mask = {} THEN <<>>
  ELSE LET first == FirstRaster(mask)
           comp == Flood({first}, {first}, mask) IN
       <<comp>> \o Label(mask \ comp)

\* The floor of 20 pixels left out.
MinSizeWithoutFloor(w, h, pct10) == (w * h * pct10) \div 1000

\* min_size = max(20, int(total_pixels * min_region_pct / 100)), with the
\* percentage given in tenths of a percent.
MinSize(w, h, pct10) == Max(MIN_REGION, (w * h * pct10) \div 1000)

QualifiesInverted(size, min_size) == size < min_size

\* A component is numbered unless np.sum(region) < min_size.
Qualifies(size, min_size) == ~(size < min_size)

Dist2(p, cx, cy) == (p[2] - cy) * (p[2] - cy) + (p[1] - cx) * (p[1] - cx)

\* cy, cx = int(np.mean(ys)), int(np.mean(xs))
Centroid(region) ==
  LET xs == [p \in region |-> p[1]]
      ys == [p \in region |-> p[2]]
      n == Cardinality(region) IN
  << SumOver(xs, region) \div n, SumOver(ys, region) \div n >>

LabelPointNoFallback(region) == Centroid(region)

\* The point the number is stamped at: the centroid, or when the centroid
\* is not a pixel of the region, the first pixel of np.argmin over the
\* squared distances to it.
LabelPoint(region) ==
  LET c == Centroid(region) IN
  IF c \in region THEN c
  ELSE CHOOSE p \in region :
         \A q \in region :
           \/ Dist2(p, c[1], c[2]) < Dist2(q, c[1], c[2])
           \/ Dist2(p, c[1], c[2]) = Dist2(q, c[1], c[2]) /\ RasterBefore(p, q)

\* font_size = max(8, min(13, w // 45))
FontSize(w) == Max(8, Min(13, w \div 45))

\* draw.text((cx, cy), txt, fill=(130, 130, 130), font=font, anchor="mm"):
\* the glyph is centred on (cx, cy).  The model inks the whole cell of a
\* digit, a font_size / 2 wide and 3 font_size / 4 high box clipped to the
\* bitmap; which pixels of the cell the strokes of a font ink is the
\* font's business.
GlyphCell(w, h, cx, cy) ==
  LET hw == FontSize(w) \div 4
      hh == (FontSize(w) * 3) \div 8 IN
  { p \in (0..(w - 1)) \X (0..(h - 1)) :
      /\ cx - hw <= p[1] /\ p[1] <= cx + hw
      /\ cy - hh <= p[2] /\ p[2] <= cy + hh }

\* outline_arr: white, with the boundary pixels black.
OutlineArrFilled(q, cm) ==
  LET boundary == Boundary(cm, q.w, q.h) IN
  [p \in DOMAIN cm |-> IF p \in boundary THEN At(q, p[1], p[2]) ELSE WHITE]

OutlineArr(q, cm) ==
  LET boundary == Boundary(cm, q.w, q.h) IN
  [p \in DOMAIN cm |-> IF p \in boundary THEN BLACK ELSE WHITE]

RECURSIVE DrawText(_, _, _, _)
DrawText(px, w, h, stamps) ==
  IF stamps = <<>> THEN px
  ELSE LET s == Head(stamps)
           cell == GlyphCell(w, h, s.cx, s.cy) IN
       DrawText([p \in DOMAIN px |-> IF p \in cell THEN LABEL_SHADE ELSE px[p]],
                w, h, Tail(stamps))

\* The loop over the components of one colour index: a record for every
\* component that is numbered.
RECURSIVE StampsOf(_, _, _, _)
StampsOf(comps, j, cidx, min_size) ==
  IF j > Len(comps) THEN <<>>
  ELSE LET region == comps[j]
           rest == StampsOf(comps, j + 1, cidx, min_size) IN
       IF Qualifies(Cardinality(region), min_size)
       THEN LET pt == LabelPoint(region) IN
            << [cidx |-> cidx, j |-> j, region |-> region,
                cx |-> pt[1], cy |-> pt[2]] >> \o rest
       ELSE rest

\* The loop over the colour indexes 1..len(unique_colors).
RECURSIVE AllStamps(_, _, _, _)
AllStamps(cm, n_unique, cidx, min_size) ==
  IF cidx > n_unique THEN <<>>
  ELSE StampsOf(Label({ p \in DOMAIN cm : cm[p] = cidx }), 1, cidx, min_size)
         \o AllStamps(cm, n_unique, cidx + 1, min_size)

\* palette = [(i + 1, colour) for i, colour in enumerate(unique_colors)]
Palette(q) ==
  LET U == UniqueShades(q) IN
  [i \in 1..Cardinality(U) |-> << i, CHOOSE v \in U : Rank(U, v) = i >>]

color_by_number(image, n_colors, pct10) ==
  LET c == _constrain(image, QUAD_MAX_DIM) IN
  IF c.status # "ok" THEN Raised(c.status, "_constrain")
  ELSE IF ~QuantizeAccepts(n_colors) THEN Raised("ValueError", "quantize")
  ELSE LET img == c.img
           min_size == MinSize(img.w, img.h, pct10)
           quantized == Quantize(img, n_colors)
           color_map == ColorMap(quantized)
           outline_arr == OutlineArr(quantized, color_map)
           stamps == AllStamps(color_map, Cardinality(UniqueShades(quantized)),
                               1, min_size) IN
       [status |-> "ok", stage |-> "return", w |-> img.w, h |-> img.h,
        min_size |-> min_size,
        outline_arr |-> outline_arr,
        outline |-> DrawText(outline_arr, img.w, img.h, stamps),
        filled |-> quantized,
        palette |-> Palette(quantized),
        stamps |-> stamps]

\* Three vertical bands: columns left of k keep bg, column k has shade v
\* and the columns right of k shade u.
Banded(w, h, k, b, v, u) ==
  Bitmap(w, h, b,
         [p \in { q \in (0..(w - 1)) \X (0..(h - 1)) : q[1] >= k } |->
            IF p[1] = k THEN v ELSE u])

BandedBitmaps(sizes) ==
  UNION { { Banded(s[1], s[2], k, b, v, u) :
              k \in 0..(s[1] - 1), v \in (Shades \cup {MID_SHADE}) \ {b},
              u \in Shades } :
          s \in sizes, b \in Shades }

\* A checkerboard: the pixels with x + y odd have shade v.
Checkerboards(sizes) ==
  UNION { { Bitmap(s[1], s[2], b,
              [p \in { q \in (0..(s[1] - 1)) \X (0..(s[2] - 1)) :
                         (q[1] + q[2]) % 2 = 1 } |-> v]) :
              v \in Shades \ {b} } :
          s \in sizes, b \in Shades }

PaintInputs ==
  FlatBitmaps(SmallSizes \cup {<<1, 1000>>, <<1000, 1>>})
    \cup DottedBitmaps(SmallSizes)
    \cup BandedBitmaps({<<10, 5>>})
    \cup Checkerboards({<<2, 2>>, <<3, 3>>})

MaxColors == 3      \* n_colors is drawn from 1..MaxColors

\* min_region_pct in tenths of a percent: 0, the default 0.4, 50 and 100.
RegionPcts == {0, 4, 500, 1000}

PaintCall ==
  /\ pc = "idle"
  /\ \E image \in PaintInputs, n_colors \in 1..MaxColors, pct10 \in RegionPcts :
       /\ fn' = "color_by_number"
       /\ args' = [image |-> image, n_colors |-> n_colors,
                   min_region_pct |-> pct10]
       /\ ret' = color_by_number(image, n_colors, pct10)
  /\ pc' = "done"
  /\ UNCHANGED <<qvars, hvars>>

\* The caller keeps the result and invokes color_by_number a second time
\* on the same bitmap with the same n_colors and another min_region_pct.
PaintAgain ==
  /\ pc = "done"
  /\ fn = "color_by_number"
  /\ prev = None
  /\ \E pct10 \in RegionPcts :
       /\ args' = [args EXCEPT !.min_region_pct = pct10]
       /\ ret' = color_by_number(args.image, args.n_colors, pct10)
  /\ prev' = [args |-> args, ret |-> ret]
  /\ UNCHANGED <<pc, fn, qvars, rng>>

NextPaint == PaintCall \/ PaintAgain \/ Reset

SpecPaint == Init /\ [][NextPaint]_vars

PaintReturned == pc = "done" /\ fn = "color_by_number" /\ ret.status = "ok"

StampCells ==
  UNION { GlyphCell(ret.w, ret.h, ret.stamps[i].cx, ret.stamps[i].cy) :
            i \in DOMAIN ret.stamps }

C4_LabelPointInsideRegion ==
  PaintReturned
  => \A i \in DOMAIN ret.stamps :
       LET s == ret.stamps[i]
           n == Cardinality(s.region)
           mx == SumOver([p \in s.region |-> p[1]], s.region) \div n
           my == SumOver([p \in s.region |-> p[2]], s.region) \div n IN
       /\ <<s.cx, s.cy>> \in s.region
       /\ <<mx, my>> \in s.region => (s.cx = mx /\ s.cy = my)
       /\ \A q \in s.region :
            Dist2(<<s.cx, s.cy>>, mx, my) <= Dist2(q, mx, my)

\* A ring: the centroid of a numbered component is not one of its pixels.
C4_Witness ==
  /\ PaintReturned
  /\ \E i \in DOMAIN ret.stamps :
       /\ Centroid(ret.stamps[i].region) \notin ret.stamps[i].region
       /\ <<ret.stamps[i].cx, ret.stamps[i].cy>> \in ret.stamps[i].region

Numbered(r) == { << r.stamps[i].cidx, r.stamps[i].region >> : i \in DOMAIN r.stamps }

SameBitmapTwice ==
  /\ PaintReturned
  /\ prev # None
  /\ prev.ret.status = "ok"
  /\ prev.args.image = args.image
  /\ prev.args.n_colors = args.n_colors

\* C10: for a fixed bitmap and n_colors the number of labels is
\* non-increasing in min_region_pct: of two invocations, every component
\* numbered under the larger percentage is numbered under the smaller one.
C10_LabelsMonotone ==
  SameBitmapTwice
  => /\ prev.args.min_region_pct <= args.min_region_pct
          => /\ Numbered(ret) \subseteq Numbered(prev.ret)
             /\ Len(ret.stamps) <= Len(prev.ret.stamps)
     /\ args.min_region_pct <= prev.args.min_region_pct
          => /\ Numbered(prev.ret) \subseteq Numbered(ret)
             /\ Len(prev.ret.stamps) <= Len(ret.stamps)

\* Raising the percentage dropped one number and kept another.
C10_Witness ==
  /\ SameBitmapTwice
  /\ prev.args.min_region_pct < args.min_region_pct
  /\ Len(ret.stamps) >= 1
  /\ Len(ret.stamps) < Len(prev.ret.stamps)

StampedNumbers == { ret.stamps[i].cidx : i \in DOMAIN ret.stamps }

\* C11: the distinct numbers stamped on the outline and the entries of
\* the returned palette are each at most n_colors, and every stamped
\* number lies in 1..K' where K' is the number of distinct colours of
\* the quantized bitmap.
C11_NumbersWithinPalette ==
  PaintReturned
  => /\ Cardinality(StampedNumbers) <= args.n_colors
     /\ Len(ret.palette) <= args.n_colors
     /\ StampedNumbers \subseteq 1..Cardinality(UniqueShades(ret.filled))

\* A bitmap with more colours than n_colors was quantized and two
\* different numbers were stamped.
C11_Witness ==
  /\ PaintReturned
  /\ Cardinality(UniqueShades(args.image)) > args.n_colors
  /\ Cardinality(StampedNumbers) >= 2
  /\ Len(ret.palette) = args.n_colors

\* The colour index of pixel p differs from the one of pixel q of the
\* quantized bitmap.
IndexDiffers(p, q) == At(ret.filled, p[1], p[2]) # At(ret.filled, q[1], q[2])

IsCheckerboard2x2(img) ==
  /\ img.w = 2 /\ img.h = 2
  /\ {At(img, 0, 0), At(img, 1, 1)} \in {{BLACK}, {WHITE}}
  /\ {At(img, 1, 0), At(img, 0, 1)} \in {{BLACK}, {WHITE}}
  /\ At(img, 0, 0) # At(img, 1, 0)

\* C16: a pixel is a boundary pixel, black in the outline before the
\* labels are stamped, if and only if its right neighbour exists and has
\* another colour index or its bottom neighbour exists and has another
\* colour index; every other pixel is white.  A pixel of the last column
\* is never a boundary on account of its right side nor a pixel of the
\* last row on account of its bottom side, so that the bottom-right pixel
\* is always white; of a 2 x 2 black and white checkerboard kept in two
\* colours the three other pixels are black.
C16_BoundaryFromRightOrBottom ==
  PaintReturned
  => /\ \A p \in DOMAIN ret.outline_arr :
          LET right == <<p[1] + 1, p[2]>>
              below == <<p[1], p[2] + 1>>
              isBoundary ==
                \/ right[1] <= ret.w - 1 /\ IndexDiffers(p, right)
                \/ below[2] <= ret.h - 1 /\ IndexDiffers(p, below) IN
          /\ ret.outline_arr[p] = BLACK <=> isBoundary
          /\ ret.outline_arr[p] = WHITE <=> ~isBoundary
          /\ (p[1] = ret.w - 1 /\ ret.outline_arr[p] = BLACK)
             => p[2] < ret.h - 1 /\ IndexDiffers(p, below)
          /\ (p[2] = ret.h - 1 /\ ret.outline_arr[p] = BLACK)
             => p[1] < ret.w - 1 /\ IndexDiffers(p, right)
     /\ ret.outline_arr[<<ret.w - 1, ret.h - 1>>] = WHITE
     /\ (IsCheckerboard2x2(args.image) /\ args.n_colors >= 2)
        => /\ ret.outline_arr[<<0, 0>>] = BLACK
           /\ ret.outline_arr[<<1, 0>>] = BLACK
           /\ ret.outline_arr[<<0, 1>>] = BLACK
           /\ ret.outline_arr[<<1, 1>>] = WHITE

\* The 2 x 2 checkerboard with a black top-left pixel, kept in two colours.
C16_Witness ==
  /\ PaintReturned
  /\ IsCheckerboard2x2(args.image)
  /\ At(args.image, 0, 0) = BLACK
  /\ args.n_colors = 2
  /\ args.min_region_pct = 0
  /\ ret.outline_arr[<<0, 1>>] = BLACK
  /\ ret.outline_arr[<<1, 1>>] = WHITE
  /\ ret.stamps = <<>>

\* The connected components of the quantized bitmap, over all colours.
Components ==
  LET cm == ColorMap(ret.filled)
      comps == [c \in 1..Len(ret.palette) |->
                  Label({ p \in DOMAIN cm : cm[p] = c })] IN
  UNION { { comps[c][j] : j \in DOMAIN comps[c] } : c \in DOMAIN comps }

StampedRegions == { ret.stamps[i].region : i \in DOMAIN ret.stamps }

\* C19: the labelling threshold is min_size = max(20, floor(total_pixels *
\* min_region_pct / 100)); a connected component receives a number if and
\* only if it has at least min_size pixels, so that no component of fewer
\* than 20 pixels is ever numbered, whatever min_region_pct is, and a
\* working image of fewer than 20 pixels gets no number at all.
C19_LabelledIffLargeEnough ==
  PaintReturned
  => LET total == ret.w * ret.h
         floor == (total * args.min_region_pct) \div 1000 IN
     /\ ret.min_size = IF floor > MIN_REGION THEN floor ELSE MIN_REGION
     /\ \A R \in Components :
          R \in StampedRegions <=> Cardinality(R) >= ret.min_size
     /\ StampedRegions \subseteq Components
     /\ \A R \in StampedRegions : Cardinality(R) >= MIN_REGION
     /\ total < MIN_REGION => ret.stamps = <<>>

\* With min_region_pct = 0 a component of exactly 20 pixels was numbered
\* and a smaller one of the same bitmap was not.
C19_Witness ==
  /\ PaintReturned
  /\ args.min_region_pct = 0
  /\ \E R \in StampedRegions : Cardinality(R) = MIN_REGION
  /\ \E R \in Components : R \notin StampedRegions /\ Cardinality(R) < MIN_REGION

-----------------------------------------------------------------------------
(* extract_palette, transforms.py 179-191 *)

PALETTE_MAX_DIM == 200

\* The position, in rgb.getdata(), of the first pixel of shade v: dict
\* entries are created in this order.  The first pixel that is no dot is
\* among the first Cardinality(DOMAIN dots) + 1 pixels.
FirstIndex(img, v) ==
  LET idx(p) == p[2] * img.w + p[1]
      lead == { i \in 0..Min(img.w * img.h - 1, Cardinality(DOMAIN img.dots)) :
                  At(img, i % img.w, i \div img.w) = v }
      rest == { idx(p) : p \in { d \in DOMAIN img.dots : img.dots[d] = v } }
      all == lead \cup rest IN
  CHOOSE i \in all : \A j \in all : i <= j

\* sorted(counts.items(), key=lambda x: -x[1]): by descending count, equal
\* counts staying in insertion order.
SortedCounts(q) ==
  LET U == UniqueShades(q)
      before(u, v) ==
        \/ CountOf(q, u) > CountOf(q, v)
        \/ CountOf(q, u) = CountOf(q, v) /\ FirstIndex(q, u) < FirstIndex(q, v)
      pos(v) == Cardinality({ u \in U : before(u, v) }) + 1 IN
  [i \in 1..Cardinality(U) |->
     LET v == CHOOSE u \in U : pos(u) = i IN << v, CountOf(q, v) >>]

FirstNShort(entries, n) == SubSeq(entries, 1, Min(n - 1, Len(entries)))

\* entries[:n]
FirstN(entries, n) == SubSeq(entries, 1, Min(n, Len(entries)))

extract_palette(image, n_colors) ==
  LET c == _constrain(image, PALETTE_MAX_DIM) IN
  IF c.status # "ok" THEN Raised(c.status, "_constrain")
  ELSE IF ~QuantizeAccepts(n_colors) THEN Raised("ValueError", "quantize")
  ELSE [status |-> "ok", stage |-> "return",
        entries |-> FirstN(SortedCounts(Quantize(c.img, n_colors)), n_colors)]

PaletteInputs ==
  FlatBitmaps(SmallSizes \cup LargeSizes)
    \cup DottedBitmaps(SmallSizes)
    \cup BandedBitmaps({<<10, 5>>})

PaletteCall ==
  /\ pc = "idle"
  /\ \E image \in PaletteInputs, n_colors \in 1..MaxColors :
       /\ fn' = "extract_palette"
       /\ args' = [image |-> image, n_colors |-> n_colors]
       /\ ret' = extract_palette(image, n_colors)
  /\ pc' = "done"
  /\ UNCHANGED <<qvars, hvars>>

NextPalette == PaletteCall \/ Reset

SpecPalette == Init /\ [][NextPalette]_vars

PaletteReturned == pc = "done" /\ fn = "extract_palette" /\ ret.status = "ok"

EntryCount == [i \in DOMAIN ret.entries |-> ret.entries[i][2]]

\* C9: the pixel counts of the entries returned by extract_palette add up
\* to the pixel count, width * height, of the downscaled working bitmap:
\* cutting the sorted list to n_colors entries drops no counted pixel.
C9_CountsSumToPixels ==
  PaletteReturned
  => LET longest == Max(args.image.w, args.image.h)
         w == IF longest <= PALETTE_MAX_DIM THEN args.image.w
              ELSE (args.image.w * PALETTE_MAX_DIM) \div longest
         h == IF longest <= PALETTE_MAX_DIM THEN args.image.h
              ELSE (args.image.h * PALETTE_MAX_DIM) \div longest IN
     SumOver(EntryCount, DOMAIN ret.entries) = w * h

\* A bitmap of three colours reduced to two, both returned.
C9_Witness ==
  /\ PaletteReturned
  /\ Cardinality(UniqueShades(args.image)) > args.n_colors
  /\ args.n_colors >= 2
  /\ Len(ret.entries) = args.n_colors

-----------------------------------------------------------------------------
(* mosaic, transforms.py 278-335 *)

MaxCells == 3       \* num_cells is drawn from 1..MaxCells
MaxBorder == 1      \* border_width is drawn from 0..MaxBorder

RNG_SEED == 42
MOSAIC_BORDER_SHADE == 20
MIN_PATCH == 3
MAX_PATCH == 20

\* numpy's generator, stood in for by a linear congruential generator: what
\* the model keeps of it is that the stream is a function of the seed and
\* of the number of draws made so far.
RngStep(state) == (state * 17 + 5) % 61

DefaultRngShared(seed, old) == IF old = NoRng THEN seed % 61 ELSE old

\* np.random.default_rng(seed): a new generator; whatever generator an
\* earlier call has left behind (old) plays no part.
DefaultRng(seed, old) == seed % 61

\* rng.integers(low, high, size=size): the values drawn and the state of
\* the generator after them.
RECURSIVE Integers(_, _, _, _)
Integers(state, low, high, size) ==
  IF size = 0 THEN [values |-> <<>>, state |-> state]
  ELSE LET next == RngStep(state)
           rest == Integers(next, low, high, size - 1) IN
       [values |-> << low + (next % (high - low)) >> \o rest.values,
        state |-> rest.state]

\* The part of the Voronoi region of seed i inside the canvas: the pixels
\* no other seed is closer to.  The four guard points lie max(w, h) * 4
\* away from the canvas and are nearest to none of its pixels.  (The
\* diagram itself is scipy's; the model works on its rasterisation.)
Cell(points, i, w, h) ==
  { p \in (0..(w - 1)) \X (0..(h - 1)) :
      \A j \in DOMAIN points :
        Dist2(p, points[i][1], points[i][2]) <= Dist2(p, points[j][1], points[j][2]) }

SetMin(S) == CHOOSE a \in S : \A b \in S : a <= b

SetMax(S) == CHOOSE a \in S : \A b \in S : a >= b

\* avg: the mean of the patch of src around the centre of the cell.
PatchShade(img, cell) ==
  LET xs == { p[1] : p \in cell }
      ys == { p[2] : p \in cell }
      cx == Max(0, Min(img.w - 1, (SetMin(xs) + SetMax(xs)) \div 2))
      cy == Max(0, Min(img.h - 1, (SetMin(ys) + SetMax(ys)) \div 2))
      r_size == Max(MIN_PATCH, Min(MAX_PATCH,
                  Min((SetMax(xs) - SetMin(xs)) \div 4,
                      (SetMax(ys) - SetMin(ys)) \div 4)))
      x0 == Max(0, cx - r_size)
      x1 == Min(img.w, cx + r_size)
      y0 == Max(0, cy - r_size)
      y1 == Min(img.h, cy + r_size) IN
  MeanShade(img, Frame(x0, y0, x1 - x0, y1 - y0, 0))

\* The pixels of the cell within border_width of its edge.
CellBorder(cell, border_width) ==
  { p \in cell :
      \E dx \in (-border_width)..border_width, dy \in (-border_width)..border_width :
        /\ (IF dx < 0 THEN -dx ELSE dx) + (IF dy < 0 THEN -dy ELSE dy) <= border_width
        /\ <<p[1] + dx, p[2] + dy>> \notin cell }

\* The loop over the seeds: draw.polygon(fill=avg), then the outline.
RECURSIVE DrawCells(_, _, _, _, _)
DrawCells(px, img, points, i, border_width) ==
  IF i > Len(points) THEN px
  ELSE LET cell == Cell(points, i, img.w, img.h)
           avg == PatchShade(img, cell)
           edge == IF border_width > 0 THEN CellBorder(cell, border_width) ELSE {} IN
       DrawCells([p \in DOMAIN px |->
                    IF p \in edge THEN MOSAIC_BORDER_SHADE
                    ELSE IF p \in cell THEN avg ELSE px[p]],
                 img, points, i + 1, border_width)

\* The result of mosaic and the generator it leaves behind.
mosaic(image, num_cells, border_width, old_rng) ==
  LET c == _constrain(image, QUAD_MAX_DIM) IN
  IF c.status # "ok"
  THEN [ret |-> Raised(c.status, "_constrain"), rng |-> old_rng]
  ELSE LET img == c.img
           rng0 == DefaultRng(RNG_SEED, old_rng)
           xs == Integers(rng0, 0, img.w, num_cells)
           ys == Integers(xs.state, 0, img.h, num_cells)
           points == [i \in 1..num_cells |-> << xs.values[i], ys.values[i] >>]
           black == [p \in Pixels(img) |-> BLACK] IN
       [ret |-> [status |-> "ok", stage |-> "return", w |-> img.w, h |-> img.h,
                 points |-> points,
                 canvas |-> DrawCells(black, img, points, 1, border_width)],
        rng |-> ys.state]

MosaicInputs ==
  FlatBitmaps(SmallSizes \cup {<<1, 1000>>, <<1000, 1>>})
    \cup DottedBitmaps(SmallSizes)

MosaicCall ==
  /\ pc = "idle"
  /\ \E image \in MosaicInputs, num_cells \in 1..MaxCells,
        border_width \in 0..MaxBorder :
       LET m == mosaic(image, num_cells, border_width, rng) IN
       /\ fn' = "mosaic"
       /\ args' = [image |-> image, num_cells |-> num_cells,
                   border_width |-> border_width]
       /\ ret' = m.ret
       /\ rng' = m.rng
  /\ pc' = "done"
  /\ UNCHANGED <<qvars, prev>>

\* The caller keeps the result and invokes mosaic a second time on the
\* same bitmap.
MosaicAgain ==
  /\ pc = "done"
  /\ fn = "mosaic"
  /\ prev = None
  /\ \E num_cells \in 1..MaxCells, border_width \in 0..MaxBorder :
       LET m == mosaic(args.image, num_cells, border_width, rng) IN
       /\ args' = [args EXCEPT !.num_cells = num_cells,
                               !.border_width = border_width]
       /\ ret' = m.ret
       /\ rng' = m.rng
  /\ prev' = [args |-> args, ret |-> ret]
  /\ UNCHANGED <<pc, fn, qvars>>

NextMosaic == MosaicCall \/ MosaicAgain \/ Reset

SpecMosaic == Init /\ [][NextMosaic]_vars

MosaicTwice ==
  /\ pc = "done" /\ fn = "mosaic" /\ prev # None
  /\ prev.args = args

\* C8: two invocations of mosaic with the same bitmap, num_cells and
\* border_width place the same seed points and return identical bitmaps:
\* the generator is seeded anew on each call and nothing carries over.
C8_MosaicDeterministic ==
  MosaicTwice
  => /\ ret.status = prev.ret.status
     /\ ret.status = "ok"
          => /\ ret.points = prev.ret.points
             /\ ret.canvas = prev.ret.canvas

\* Two equal invocations that placed distinct seeds and painted cells of
\* different colours.
C8_Witness ==
  /\ MosaicTwice
  /\ ret.status = "ok"
  /\ Len(ret.points) >= 2
  /\ ret.points[1] # ret.points[2]
  /\ Cardinality({ ret.canvas[p] : p \in DOMAIN ret.canvas }) >= 2

-----------------------------------------------------------------------------
(* to_ascii, transforms.py 68-91 *)

MaxWidth == 3       \* width is drawn from 1..MaxWidth

GREY_LEVELS == 256
ASPECT_PCT == 45    \* the factor 0.45 of new_h, in hundredths

\* The ramps, darkest character first.  The characters outside ASCII and
\* the backquote are written as their code points.
CHARSETS ==
  [ standard |->
      << "@", "%", "#", "*", "+", "=", "-", ":", ".", " " >>,
    blocks |->
      << "U+2588", "U+2593", "U+2592", "U+2591", " " >>,
    minimal |->
      << "#", "=", ":", ".", " " >>,
    detailed |->
      << "$", "@", "B", "%", "8", "&", "W", "M", "#", "*", "o", "a", "h", "k",
         "b", "d", "p", "q", "w", "m", "Z", "O", "0", "Q", "L", "C", "J", "U",
         "Y", "X", "z", "c", "v", "u", "n", "x", "r", "j", "f", "t", "/", "\\",
         "|", "(", ")", "1", "{", "}", "[", "]", "?", "-", "_", "+", "~", "<",
         ">", "i", "!", "l", "I", ";", ":", ",", "\"", "^", "U+0060", "'",
         ".", " " >> ]

\* CHARSETS.get(charset, CHARSETS["standard"])
Chars(charset) ==
  IF charset \in DOMAIN CHARSETS THEN CHARSETS[charset]
  ELSE CHARSETS["standard"]

\* max(1, int(width * aspect * 0.45)) with aspect = height / width
NewHeight(img, width) ==
  Max(1, (width * img.h * ASPECT_PCT) \div (img.w * 100))

\* img.resize((width, new_h)).convert("L").  A resize to the size the
\* bitmap already has returns a copy, and a flat bitmap stays flat under
\* resampling; the luminance of the grey (v, v, v) is v.
ResizeToL(img, nw, nh) ==
  IF nw < 1 \/ nh < 1 THEN [status |-> "ValueError"]
  ELSE IF nw = img.w /\ nh = img.h THEN [status |-> "ok", img |-> img]
  ELSE [status |-> "ok", img |-> Bitmap(nw, nh, img.bg, NoDots)]

\* The brightness scaled by 255 instead of 256, and not clipped.
IndexOfUnclipped(p, n) == (p * n) \div 255

\* np.clip((pixels / 256 * n).astype(int), 0, n - 1) for one pixel; the
\* index is 0-based.
IndexOf(p, n) == Max(0, Min((p * n) \div GREY_LEVELS, n - 1))

\* chars[i] of a numpy array: a negative index counts from the end, and
\* the caller has made sure that -n <= i < n.
CharAt(chars, i) == IF i < 0 THEN chars[Len(chars) + i + 1] ELSE chars[i + 1]

to_ascii(image, width, charset) ==
  LET chars == Chars(charset)
      n == Len(chars)
      c == _constrain(image, MAX_DIM) IN
  IF c.status # "ok" THEN Raised(c.status, "_constrain")
  ELSE LET r == ResizeToL(c.img, width, NewHeight(c.img, width)) IN
       IF r.status # "ok" THEN Raised(r.status, "resize")
       ELSE LET pixels == r.img
                indices == [y \in 0..(pixels.h - 1) |->
                              [x \in 0..(pixels.w - 1) |->
                                 IndexOf(At(pixels, x, y), n)]] IN
            IF \E y \in DOMAIN indices : \E x \in DOMAIN indices[y] :
                    indices[y][x] \notin (-n)..(n - 1)
            THEN Raised("IndexError", "join")
            ELSE [status |-> "ok", stage |-> "return", pixels |-> pixels,
                  indices |-> indices,
                  lines |-> [y \in 1..pixels.h |->
                               [x \in 1..pixels.w |->
                                  CharAt(chars, indices[y - 1][x - 1])]]]

\* Every brightness on flat bitmaps, and pairs of neighbouring
\* brightnesses on a bitmap of two pixels, which width = 2 leaves as it is.
AsciiInputs ==
  { <<Bitmap(s[1], s[2], p, NoDots), width>> :
      s \in {<<1, 1>>, <<2, 9>>, <<1, 1000>>}, p \in 0..(GREY_LEVELS - 1),
      width \in 0..MaxWidth }
    \cup { <<Bitmap(2, 1, p, [q \in {<<1, 0>>} |-> p + 1]), 2>> :
             p \in 0..(GREY_LEVELS - 2) }

CharsetNames == {"standard", "blocks", "minimal", "detailed", "braille"}

AsciiCall ==
  /\ pc = "idle"
  /\ \E in \in AsciiInputs, charset \in CharsetNames :
       /\ fn' = "to_ascii"
       /\ args' = [image |-> in[1], width |-> in[2], charset |-> charset]
       /\ ret' = to_ascii(in[1], in[2], charset)
  /\ pc' = "done"
  /\ UNCHANGED <<qvars, hvars>>

NextAscii == AsciiCall \/ Reset

SpecAscii == Init /\ [][NextAscii]_vars

AsciiReturned == pc = "done" /\ fn = "to_ascii" /\ ret.status = "ok"

AsciiPixels == (0..(ret.pixels.w - 1)) \X (0..(ret.pixels.h - 1))

\* C13: for every ramp of length n (the four charsets, and the standard
\* ramp for an unknown name) and every pixel value p in 0..255 the chosen
\* index lies in 0..n-1 and is non-decreasing in p; p = 0 gives the first
\* character of the ramp and p = 255 the last.
C13_IndexInRampAndMonotone ==
  /\ (pc = "done" /\ fn = "to_ascii") => ret.status # "IndexError"
  /\ AsciiReturned
     => LET chars == Chars(args.charset)
            n == Len(chars)
            pix(q) == At(ret.pixels, q[1], q[2])
            idx(q) == ret.indices[q[2]][q[1]]
            chr(q) == ret.lines[q[2] + 1][q[1] + 1] IN
        /\ args.charset \notin DOMAIN CHARSETS => chars = CHARSETS["standard"]
        /\ \A q \in AsciiPixels :
             /\ idx(q) \in 0..(n - 1)
             /\ chr(q) = chars[idx(q) + 1]
             /\ pix(q) = 0 => chr(q) = chars[1]
             /\ pix(q) = GREY_LEVELS - 1 => chr(q) = chars[n]
             /\ \A p \in 0..pix(q) : IndexOf(p, n) <= idx(q)
             /\ \A r \in AsciiPixels : pix(q) <= pix(r) => idx(q) <= idx(r)

\* The brightest pixel was mapped with the longest ramp to its last
\* character, next to a pixel one shade darker.
C13_Witness ==
  /\ AsciiReturned
  /\ args.charset = "detailed"
  /\ ret.pixels.w = 2
  /\ At(ret.pixels, 1, 0) = GREY_LEVELS - 1
  /\ ret.indices[0][1] = 69
  /\ ret.lines[1][2] = " "

-----------------------------------------------------------------------------
(* glitch, transforms.py 342-381 *)

(* The model runs glitch on flat bitmaps.  On a flat bitmap the channel    *)
(* shift and the block displacement move pixels onto pixels of the same    *)
(* colour, and a scanline brightens whole rows, so the result is kept as   *)
(* one shade per row: canvas = [w, h, rows].  While glitch runs, stack     *)
(* holds the number of iterations the running loop has left and rng the    *)
(* state of the generator.                                                 *)

MaxIntensity == 2   \* intensity is drawn from 0..MaxIntensity

MIN_BLOCK_H == 2
BLOCK_H_CAP == 3
MAX_THICKNESS == 3
MAX_BOOST == 40

\* rng.integers(low, high) for one value: numpy raises ValueError
\* ("low >= high") when the range is empty.
Scalar(state, low, high) ==
  IF low >= high THEN [status |-> "ValueError"]
  ELSE LET d == Integers(state, low, high, 1) IN
       [status |-> "ok", value |-> d.values[1], state |-> d.state]

\* The five draws of one iteration of the block loop, in the order of the
\* source; the first empty range ends the call.
BlockDraws(state, w, h) ==
  LET bh == Scalar(state, MIN_BLOCK_H, Max(BLOCK_H_CAP, h \div 8)) IN
  IF bh.status # "ok" THEN Raised("ValueError", "bh")
  ELSE LET bw == Scalar(bh.state, w \div 4, w) IN
  IF bw.status # "ok" THEN Raised("ValueError", "bw")
  ELSE LET y == Scalar(bw.state, 0, h - bh.value) IN
  IF y.status # "ok" THEN Raised("ValueError", "y")
  ELSE LET x == Scalar(y.state, 0, Max(1, w - bw.value)) IN
  IF x.status # "ok" THEN Raised("ValueError", "x")
  ELSE LET shift == Scalar(x.state, FloorDiv(-w, 6), w \div 6) IN
  IF shift.status # "ok" THEN Raised("ValueError", "shift")
  ELSE [status |-> "ok", bh |-> bh.value, bw |-> bw.value, y |-> y.value,
        x |-> x.value, shift |-> shift.value, state |-> shift.state]

\* The three draws of one scanline.
LineDraws(state, h) ==
  LET y == Scalar(state, 0, h) IN
  IF y.status # "ok" THEN Raised("ValueError", "line y")
  ELSE LET thickness == Scalar(y.state, 1, MAX_THICKNESS)
           brightness == Scalar(thickness.state, 0, MAX_BOOST) IN
       [status |-> "ok", y |-> y.value, thickness |-> thickness.value,
        brightness |-> brightness.value, state |-> brightness.state]

\* result[y:min(h, y + thickness), :] brightened and clipped to 0..255
Scanline(cv, y, thickness, brightness) ==
  [cv EXCEPT !.rows = [r \in DOMAIN @ |->
     IF y <= r /\ r < Min(cv.h, y + thickness)
     THEN Max(0, Min(WHITE, @[r] + brightness)) ELSE @[r]]]

GlitchInputs ==
  FlatBitmaps({ <<1, 1>>, <<1, 2>>, <<5, 2>>, <<2, 3>>, <<3, 3>>, <<7, 4>>,
                <<30, 24>>, <<9, 40>>, <<1200, 800>>, <<1000, 1>> })

Seeds == {7, RNG_SEED}

GlitchCall ==
  /\ pc = "idle"
  /\ \E image \in GlitchInputs, intensity \in 0..MaxIntensity, seed \in Seeds :
       LET c == _constrain(image, MAX_DIM) IN
       /\ fn' = "glitch"
       /\ args' = [image |-> image, intensity |-> intensity, seed |-> seed]
       /\ IF c.status = "ok"
          THEN /\ src' = c.img
               /\ canvas' = [w |-> c.img.w, h |-> c.img.h,
                             rows |-> [r \in 0..(c.img.h - 1) |-> c.img.bg]]
               /\ rng' = DefaultRng(seed, rng)
               /\ stack' = << intensity * 2 >>
               /\ pc' = "blocks"
               /\ ret' = None
          ELSE /\ ret' = Raised(c.status, "_constrain")
               /\ pc' = "done"
               /\ UNCHANGED <<src, canvas, stack, rng>>
  /\ UNCHANGED <<leaves, prev>>

\* One iteration of the block loop.  The block is copied within its own
\* rows, which leaves a bitmap of one shade per row as it is.
BlockStep ==
  /\ pc = "blocks"
  /\ stack[1] > 0
  /\ LET d == BlockDraws(rng, canvas.w, canvas.h) IN
     IF d.status = "ok"
     THEN /\ rng' = d.state
          /\ stack' = << stack[1] - 1 >>
          /\ UNCHANGED <<pc, ret>>
     ELSE /\ ret' = d
          /\ pc' = "done"
          /\ UNCHANGED <<rng, stack>>
  /\ UNCHANGED <<fn, args, src, canvas, leaves, prev>>

BlocksDone ==
  /\ pc = "blocks"
  /\ stack[1] = 0
  /\ pc' = "lines"
  /\ stack' = << args.intensity * 4 >>
  /\ UNCHANGED <<fn, args, ret, src, canvas, leaves, prev, rng>>

LineStep ==
  /\ pc = "lines"
  /\ stack[1] > 0
  /\ LET d == LineDraws(rng, canvas.h) IN
     IF d.status = "ok"
     THEN /\ rng' = d.state
          /\ canvas' = Scanline(canvas, d.y, d.thickness, d.brightness)
          /\ stack' = << stack[1] - 1 >>
          /\ UNCHANGED <<pc, ret>>
     ELSE /\ ret' = d
          /\ pc' = "done"
          /\ UNCHANGED <<rng, stack, canvas>>
  /\ UNCHANGED <<fn, args, src, leaves, prev>>

\* return Image.fromarray(result)
GlitchReturn ==
  /\ pc = "lines"
  /\ stack[1] = 0
  /\ ret' = [status |-> "ok", w |-> canvas.w, h |-> canvas.h]
  /\ pc' = "done"
  /\ UNCHANGED <<fn, args, src, canvas, stack, leaves, prev, rng>>

NextGlitch ==
  GlitchCall \/ BlockStep \/ BlocksDone \/ LineStep \/ GlitchReturn \/ Reset

SpecGlitch == Init /\ [][NextGlitch]_vars

\* C17: glitch completes without raising and returns a bitmap of the size
\* of the working image, for every working image of width >= 1 and
\* height >= 1 (heights 1 and 2 included), every intensity >= 1 and every
\* seed: none of the random ranges drawn in the block and scanline loops
\* is empty.
C17_GlitchCompletes ==
  (pc = "done" /\ fn = "glitch" /\ src # None /\ args.intensity >= 1)
  => /\ ret.status = "ok"
     /\ ret.w = src.w /\ ret.h = src.h

=============================================================================
